---- MODULE Spec2Model ----
(***************************************************************************)
(* A model of manifest_dumper (src/src/main.rs): the reader of a RocksDB   *)
(* MANIFEST.  The file is a sequence of bytes; ManifestReader::read_record *)
(* walks it in 32 KiB blocks, reassembles one logical payload from         *)
(* Full / First / Middle / Last fragments and decodes the payload into a   *)
(* list of VersionEdits; main folds the edits into a map of files.         *)
(*                                                                         *)
(* Bytes are the integers 0..255.  A u32 that needs all its 32 bits (the   *)
(* checksums) is a tuple of four bytes, least significant first, because   *)
(* TLC's integers end at 2^31 - 1.  Decoded varints are carried as TLC     *)
(* integers; the inputs keep every varint below 2^28 (at most four bytes), *)
(* where neither the u32 nor the u64 arithmetic of the source wraps.       *)
(***************************************************************************)
EXTENDS Integers, Sequences, FiniteSets, TLC

VARIABLES
    file,             \* the bytes of the manifest file (never written)
    stream_position,  \* ManifestReader.reader: offset of the next byte to read
    pc,               \* where main is: "reading", "listing", "exit", "failed"
    pos,              \* main's pos: offset at which the last record ended
    files,            \* main's files: file_number -> FileMetaData
    v,                \* main's v: the files sorted by file_number
    result,           \* what the last read_record call returned
    stderr,           \* number of "CRC mismatch" lines printed so far
    trace,            \* history: what the last read_record call did
    input             \* history: how the file was laid out

vars == <<file, stream_position, pc, pos, files, v, result, stderr, trace, input>>

---------------------------------------------------------------------------
(* Constants of the source.                                                *)

ZERO_TYPE == 0
FULL_TYPE == 1
FIRST_TYPE == 2
MIDDLE_TYPE == 3
LAST_TYPE == 4

BLOCK_SIZE == 32768
HEADER_SIZE == 7

None == <<>>
Some(x) == <<x>>

Min(a, b) == IF a < b THEN a ELSE b

---------------------------------------------------------------------------
(* io::Error values, by kind and message.                                  *)

IoError(kind, msg) == [kind |-> kind, msg |-> msg]

\* read_exact on a reader that ends too early
UnexpectedEof == IoError("UnexpectedEof", "failed to fill whole buffer")
InvalidData(msg) == IoError("InvalidData", msg)

Fail(e) == [ok |-> FALSE, err |-> e]

---------------------------------------------------------------------------
(* Cursor<Vec<u8>>.  A cursor c is the buffer, the position (0-based), the  *)
(* error that ended the reading (None while there is none: every read is    *)
(* followed by `?` in the source, so a failed cursor stays failed), out,    *)
(* the values read so far, and marks, the positions the decoding loop has   *)
(* begun a turn at.                                                         *)

Cursor(buf) == [buf |-> buf, pos |-> 0, err |-> None, out |-> <<>>, marks |-> <<>>]

Mark(c) == [c EXCEPT !.marks = Append(@, c.pos)]

Failed(c) == c.err # None

Throw(c, e) == [c EXCEPT !.err = Some(e)]

\* c with the outcome r of one read: the value and the new position, or the error
Push(c, r) ==
    IF r.ok THEN [c EXCEPT !.pos = r.pos, !.out = Append(@, r.val)]
    ELSE Throw(c, r.err)

Clear(c) == [c EXCEPT !.out = <<>>]

RECURSIVE varint_loop(_, _, _, _)
varint_loop(buf, p, shift, acc) ==
    IF p >= Len(buf)
    THEN Fail(UnexpectedEof)
    ELSE IF buf[p + 1] < 128
    \* result |= (byte & 0x7f) << shift: the bits are disjoint
    THEN [ok |-> TRUE, val |-> acc + buf[p + 1] * (2 ^ shift), pos |-> p + 1]
    ELSE varint_loop(buf, p + 1, shift + 7, acc + (buf[p + 1] % 128) * (2 ^ shift))

read_varint32(c) ==
    IF Failed(c) THEN c ELSE Push(c, varint_loop(c.buf, c.pos, 0, 0))

read_varint64(c) ==
    IF Failed(c) THEN c ELSE Push(c, varint_loop(c.buf, c.pos, 0, 0))

\* a cursor that gives the bytes it has when asked for more
cursor_read_exact_what_is_left(buf, p, n) ==
    IF p + n > Len(buf)
    THEN [ok |-> TRUE, val |-> SubSeq(buf, p + 1, Len(buf)), pos |-> Len(buf)]
    ELSE [ok |-> TRUE, val |-> SubSeq(buf, p + 1, p + n), pos |-> p + n]

\* Cursor::read_exact of n bytes at p
cursor_read_exact(buf, p, n) ==
    IF p + n > Len(buf)
    THEN Fail(UnexpectedEof)
    ELSE [ok |-> TRUE, val |-> SubSeq(buf, p + 1, p + n), pos |-> p + n]

\* the bytes behind the length that read_varint32 has just left in length.out
slice_data(length) ==
    IF Failed(length) THEN length
    ELSE Push([length EXCEPT !.out = SubSeq(@, 1, Len(@) - 1)],
              cursor_read_exact(length.buf, length.pos, length.out[Len(length.out)]))

read_length_prefixed_slice(c) == slice_data(read_varint32(c))

\* byteorder's read_u64::<LittleEndian> on a fresh cursor over data
read_u64_le(data) ==
    IF Len(data) < 8
    THEN Fail(UnexpectedEof)
    ELSE [ok |-> TRUE,
          val |-> data[1] + 256 * (data[2] + 256 * (data[3] + 256 * (data[4]
                  + 256 * (data[5] + 256 * (data[6] + 256 * (data[7]
                  + 256 * data[8]))))))]

\* read_varint64 on a fresh cursor over data
field_varint64(data) == varint_loop(data, 0, 0, 0)

---------------------------------------------------------------------------
(* String::from_utf8: whether the bytes are well-formed UTF-8.             *)

IsCont(b) == b >= 128 /\ b <= 191

RECURSIVE utf8_from(_, _)
utf8_from(s, i) ==
    IF i > Len(s) THEN TRUE
    ELSE LET b == s[i]
             has(k) == i + k <= Len(s)
         IN IF b < 128 THEN utf8_from(s, i + 1)
            ELSE IF b >= 194 /\ b <= 223
            THEN has(1) /\ IsCont(s[i + 1]) /\ utf8_from(s, i + 2)
            ELSE IF b >= 224 /\ b <= 239
            THEN /\ has(2)
                 /\ IsCont(s[i + 1]) /\ IsCont(s[i + 2])
                 /\ (b = 224 => s[i + 1] >= 160)
                 /\ (b = 237 => s[i + 1] <= 159)
                 /\ utf8_from(s, i + 3)
            ELSE IF b >= 240 /\ b <= 244
            THEN /\ has(3)
                 /\ IsCont(s[i + 1]) /\ IsCont(s[i + 2]) /\ IsCont(s[i + 3])
                 /\ (b = 240 => s[i + 1] >= 144)
                 /\ (b = 244 => s[i + 1] <= 143)
                 /\ utf8_from(s, i + 4)
            ELSE FALSE

from_utf8(data) ==
    IF utf8_from(data, 1)
    THEN [ok |-> TRUE, val |-> data]
    ELSE Fail(InvalidData("invalid utf-8 sequence"))

---------------------------------------------------------------------------
(* u32 arithmetic on four little-endian bytes.                             *)

Lo16(c) == c[1] + 256 * c[2]
Hi16(c) == c[3] + 256 * c[4]
FromHalves(hi, lo) == <<lo % 256, lo \div 256, hi % 256, hi \div 256>>

U32Zero == <<0, 0, 0, 0>>

\* a reader that takes the delta off and does not rotate
unmask_crc_unrotated(c) ==
    FromHalves((Hi16(c) + 65536 - 41602 - (IF Lo16(c) < 60120 THEN 1 ELSE 0)) % 65536,
               (Lo16(c) + 65536 - 60120) % 65536)

unmask_crc(c) ==
    LET \* c.wrapping_sub(0xa282ead8)
        lo == (Lo16(c) - 60120) % 65536
        borrow == IF Lo16(c) < 60120 THEN 1 ELSE 0
        hi == (Hi16(c) - 41602 - borrow) % 65536
        \* (rot >> 17) | (rot << 15)
    IN FromHalves((hi % 2) * 32768 + lo \div 2, (hi \div 2) + (lo % 2) * 32768)

\* crc32c::crc32c: CRC-32C (Castagnoli), reflected, polynomial 0x82F63B78
RECURSIVE XorN(_, _, _)
XorN(a, b, n) ==
    IF n = 0 THEN 0 ELSE ((a + b) % 2) + 2 * XorN(a \div 2, b \div 2, n - 1)

Xor4Tab == [a \in 0..15 |-> [b \in 0..15 |-> XorN(a, b, 4)]]
Xor8Tab == [a \in 0..255 |-> [b \in 0..255 |->
               16 * Xor4Tab[a \div 16][b \div 16] + Xor4Tab[a % 16][b % 16]]]

Xor32(a, b) ==
    <<Xor8Tab[a[1]][b[1]], Xor8Tab[a[2]][b[2]], Xor8Tab[a[3]][b[3]], Xor8Tab[a[4]][b[4]]>>

Shr1(c) == <<c[1] \div 2 + 128 * (c[2] % 2), c[2] \div 2 + 128 * (c[3] % 2),
             c[3] \div 2 + 128 * (c[4] % 2), c[4] \div 2>>

RECURSIVE CrcBits(_, _)
CrcBits(c, k) ==
    IF k = 0 THEN c
    ELSE CrcBits(IF c[1] % 2 = 1 THEN Xor32(Shr1(c), <<120, 59, 246, 130>>)
                 ELSE Shr1(c), k - 1)

CrcTable == [n \in 0..255 |-> CrcBits(<<n, 0, 0, 0>>, 8)]

CrcStep(c, b) ==
    LET t == CrcTable[Xor8Tab[c[1]][b]]
    IN <<Xor8Tab[t[1]][c[2]], Xor8Tab[t[2]][c[3]], Xor8Tab[t[3]][c[4]], t[4]>>

\* the bytes data[lo..hi] fed to the register c, halving the range so that the
\* depth of the evaluation stays logarithmic in the length
RECURSIVE CrcFold(_, _, _, _)
CrcFold(c, data, lo, hi) ==
    IF lo > hi THEN c
    ELSE IF lo = hi THEN CrcStep(c, data[lo])
    ELSE LET mid == (lo + hi) \div 2
             left == CrcFold(c, data, lo, mid)
         IN IF left[1] >= 0 THEN CrcFold(left, data, mid + 1, hi) ELSE left

crc32c(data) ==
    LET r == CrcFold(<<255, 255, 255, 255>>, data, 1, Len(data))
    IN <<255 - r[1], 255 - r[2], 255 - r[3], 255 - r[4]>>

---------------------------------------------------------------------------
(* The edit tag decoder: the second half of read_record.                   *)

\* Tag::try_from(tag as u8): the tag is cut to its low 8 bits first
TagName(value) ==
    CASE value = 1 -> "Comparator"
      [] value = 2 -> "LogNumber"
      [] value = 3 -> "NextFileNumber"
      [] value = 4 -> "LastSequence"
      [] value = 5 -> "CompactCursor"
      [] value = 6 -> "DeletedFile"
      [] value = 7 -> "NewFile"
      [] value = 9 -> "PrevLogNumber"
      [] value = 10 -> "MinLogNumberToKeep"
      [] value = 100 -> "NewFile2"
      [] value = 102 -> "NewFile3"
      [] value = 103 -> "NewFile4"
      [] value = 200 -> "ColumnFamily"
      [] value = 201 -> "ColumnFamilyAdd"
      [] value = 202 -> "ColumnFamilyDrop"
      [] value = 203 -> "MaxColumnFamily"
      [] OTHER -> "Invalid tag value"

Tag_try_from(tag) == TagName(tag % 256)

\* NewFileCustomTag::try_from(custom_tag): on the whole u32
NewFileCustomTag_try_from(value) ==
    CASE value = 1 -> "Terminate"
      [] value = 2 -> "NeedCompaction"
      [] value = 3 -> "MinLogNumberToKeepHack"
      [] value = 4 -> "OldestBlobFileNumber"
      [] value = 5 -> "OldestAncesterTime"
      [] value = 6 -> "FileCreationTime"
      [] value = 7 -> "FileChecksum"
      [] value = 8 -> "FileChecksumFuncName"
      [] value = 9 -> "Temperature"
      [] value = 10 -> "MinTimestamp"
      [] value = 11 -> "MaxTimestamp"
      [] value = 12 -> "UniqueId"
      [] value = 13 -> "EpochNumber"
      [] value = 14 -> "CompensateRangeDeletionSize"
      [] value = 15 -> "TailSize"
      [] value = 16 -> "UserDefinedTimestampsPersisted"
      [] OTHER -> "Invalid NewFileCustomTag value"

FileMetaData_default ==
    [level |-> 0, file_number |-> 0, file_size |-> 0,
     smallest_key |-> <<>>, largest_key |-> <<>>,
     smallest_seqno |-> 0, largest_seqno |-> 0,
     path_id |-> 0, needs_compaction |-> FALSE,
     min_log_number_to_keep |-> None, oldest_blob_file_number |-> None,
     oldest_ancester_time |-> 0, file_creation_time |-> 0, epoch_number |-> 0,
     file_checksum |-> <<>>, file_checksum_func_name |-> <<>>,
     temperature |-> None, unique_id |-> <<>>,
     compensated_range_deletion_size |-> 0, tail_size |-> 0,
     user_defined_timestamps_persisted |-> TRUE,
     min_timestamp |-> None, max_timestamp |-> None, deleted |-> FALSE]

Meta(m) == [ok |-> TRUE, meta |-> m]

\* a reader that ignores every custom field it has no name for
unknown_custom_field_ignored(meta, custom_tag) == Meta(meta)

\* the arm Err(err): custom_tag & 0x40 is kCustomTagNonSafeIgnoreMask
unknown_custom_field(meta, custom_tag) ==
    IF (custom_tag \div 64) % 2 = 1
    THEN Fail(InvalidData("new-file4 custom field not supported"))
    ELSE Meta(meta)

\* one arm of the match on NewFileCustomTag::try_from(custom_tag)
custom_field(meta, custom_tag, field_data) ==
    LET name == NewFileCustomTag_try_from(custom_tag)
        varint == field_varint64(field_data)
        text == from_utf8(field_data)
    IN CASE name = "NeedCompaction" ->
              IF Len(field_data) # 1
              THEN Fail(InvalidData("need_compaction field wrong size"))
              ELSE Meta([meta EXCEPT !.needs_compaction = (field_data[1] = 1)])
         [] name = "MinLogNumberToKeepHack" ->
              IF Len(field_data) < 8 THEN Fail(UnexpectedEof)
              ELSE Meta([meta EXCEPT
                            !.min_log_number_to_keep = Some(read_u64_le(field_data).val)])
         [] name = "OldestBlobFileNumber" ->
              IF ~varint.ok THEN varint
              ELSE Meta([meta EXCEPT !.oldest_blob_file_number = Some(varint.val)])
         [] name = "OldestAncesterTime" ->
              IF ~varint.ok THEN varint
              ELSE Meta([meta EXCEPT !.oldest_ancester_time = varint.val])
         [] name = "FileCreationTime" ->
              IF ~varint.ok THEN varint
              ELSE Meta([meta EXCEPT !.file_creation_time = varint.val])
         [] name = "FileChecksum" ->
              IF ~text.ok THEN text
              ELSE Meta([meta EXCEPT !.file_checksum = text.val])
         [] name = "FileChecksumFuncName" ->
              IF ~text.ok THEN text
              ELSE Meta([meta EXCEPT !.file_checksum_func_name = text.val])
         [] name = "Temperature" ->
              IF Len(field_data) # 1
              THEN Fail(InvalidData("temperature field wrong size"))
              ELSE Meta([meta EXCEPT !.temperature = Some(field_data[1])])
         [] name = "UniqueId" ->
              Meta([meta EXCEPT !.unique_id = field_data])
         [] name = "EpochNumber" ->
              IF ~varint.ok THEN varint
              ELSE Meta([meta EXCEPT !.epoch_number = varint.val])
         [] name = "CompensateRangeDeletionSize" ->
              IF ~varint.ok THEN varint
              ELSE Meta([meta EXCEPT !.compensated_range_deletion_size = varint.val])
         [] name = "TailSize" ->
              IF ~varint.ok THEN varint
              ELSE Meta([meta EXCEPT !.tail_size = varint.val])
         [] name = "UserDefinedTimestampsPersisted" ->
              IF Len(field_data) # 1
              THEN Fail(InvalidData("user-defined timestamps persisted field wrong size"))
              ELSE Meta([meta EXCEPT
                            !.user_defined_timestamps_persisted = (field_data[1] = 1)])
         [] name = "MinTimestamp" ->
              Meta([meta EXCEPT !.min_timestamp = Some(field_data)])
         [] name = "MaxTimestamp" ->
              Meta([meta EXCEPT !.max_timestamp = Some(field_data)])
         [] OTHER -> unknown_custom_field(meta, custom_tag)

\* "Read custom fields until terminating tag".  The loop is cut at each read:
\* custom_fields_loop reads the tag, custom_tag_read sees it and reads the
\* field, custom_data_read matches on the tag, custom_apply takes the arm's
\* outcome.  At the break the cursor's out is the edit.
RECURSIVE custom_fields_loop(_, _)
custom_apply(c, m) ==
    IF ~m.ok THEN Throw(c, m.err) ELSE custom_fields_loop(Clear(c), m.meta)

custom_data_read(c, meta) ==
    IF Failed(c) THEN c ELSE custom_apply(c, custom_field(meta, c.out[1], c.out[2]))

\* a reader that takes the end of the payload for the Terminate sub-tag
custom_tag_read_to_the_end(c, meta) ==
    IF Failed(c) \/ c.out[1] = 1
    THEN [c EXCEPT !.err = None, !.out = <<[op |-> "NewFile4", meta |-> meta]>>]
    ELSE custom_data_read(read_length_prefixed_slice(c), meta)

custom_tag_read(c, meta) ==
    IF Failed(c) THEN c
    ELSE IF c.out[1] = 1
    THEN [c EXCEPT !.out = <<[op |-> "NewFile4", meta |-> meta]>>]
    ELSE custom_data_read(read_length_prefixed_slice(c), meta)

custom_fields_loop(c, meta) == custom_tag_read(read_varint32(c), meta)

\* let mut meta = FileMetaData::default(); meta.level = level; ...
NewFile4_meta(c) ==
    IF Failed(c) THEN c
    ELSE custom_fields_loop(Clear(c),
            [FileMetaData_default EXCEPT
                !.level = c.out[1],
                !.file_number = c.out[2],
                !.file_size = c.out[3],
                !.smallest_key = c.out[4],
                !.largest_key = c.out[5],
                !.smallest_seqno = c.out[6],
                !.largest_seqno = c.out[7]])

decode_NewFile4(c) ==
    NewFile4_meta(
        read_varint64(read_varint64(                            \* seqnos
        read_length_prefixed_slice(read_length_prefixed_slice(  \* keys
        read_varint64(read_varint64(read_varint32(c))))))))     \* level, number, size

\* edits.push(VersionEdit::<name>(number))
push_number(c, name) ==
    IF Failed(c) THEN c ELSE [c EXCEPT !.out = <<[op |-> name, num |-> c.out[1]]>>]

\* String::from_utf8(data) and edits.push(VersionEdit::<name>(string))
push_string(c, name) ==
    IF Failed(c) THEN c
    ELSE IF ~utf8_from(c.out[1], 1) THEN Throw(c, InvalidData("invalid utf-8 sequence"))
    ELSE [c EXCEPT !.out = <<[op |-> name, name |-> c.out[1]]>>]

push_DeletedFile(c) ==
    IF Failed(c) THEN c
    ELSE [c EXCEPT !.out = <<[op |-> "DeletedFile", level |-> c.out[1],
                              file_number |-> c.out[2]]>>]

push_CompactCursor(c) ==
    IF Failed(c) THEN c
    ELSE [c EXCEPT !.out = <<[op |-> "CompactCursor", level |-> c.out[1],
                              key |-> c.out[2]]>>]

\* the match on Tag::try_from(tag as u8), with the cursor just behind the tag;
\* the cursor returned holds the edit in out
decode_edit(c, tag) ==
    LET name == Tag_try_from(tag)
    IN CASE name = "Comparator" ->
              push_string(read_length_prefixed_slice(c), "Comparator")
         [] name = "LogNumber" -> push_number(read_varint64(c), "LogNumber")
         [] name = "NextFileNumber" -> push_number(read_varint64(c), "NextFileNumber")
         [] name = "LastSequence" -> push_number(read_varint64(c), "LastSequence")
         [] name \in {"NewFile", "NewFile2", "NewFile3"} ->
              Throw(c, InvalidData("Obsolete tag"))
         [] name = "NewFile4" -> decode_NewFile4(c)
         [] name = "ColumnFamily" -> push_number(read_varint32(c), "ColumnFamily")
         [] name = "ColumnFamilyAdd" ->
              push_string(read_length_prefixed_slice(c), "ColumnFamilyAdd")
         [] name = "PrevLogNumber" -> push_number(read_varint64(c), "PrevLogNumber")
         [] name = "MaxColumnFamily" -> push_number(read_varint32(c), "MaxColumnFamily")
         [] name = "DeletedFile" -> push_DeletedFile(read_varint64(read_varint32(c)))
         [] name = "CompactCursor" ->
              push_CompactCursor(read_length_prefixed_slice(read_varint32(c)))
         [] name = "MinLogNumberToKeep" ->
              push_number(read_varint64(c), "MinLogNumberToKeep")
         [] name = "ColumnFamilyDrop" -> [c EXCEPT !.out = <<[op |-> "ColumnFamilyDrop"]>>]
         [] OTHER -> Throw(c, InvalidData("Unknown tag"))

\* "Read all items from the payload": while cursor.position() < size.
\* The loop is cut at the tag (edits_tag_read) and at the edit
\* (edits_edit_read); tags collects the tag values read, in order.
RECURSIVE decode_edits(_, _, _)
\* a reader that puts each edit in front of those before it
edits_edit_read_in_front(c, edits, tags) ==
    IF Failed(c)
    THEN [ok |-> FALSE, err |-> c.err[1], tags |-> tags, marks |-> c.marks, pos |-> c.pos]
    ELSE decode_edits(Clear(c), <<c.out[1]>> \o edits, tags)

edits_edit_read(c, edits, tags) ==
    IF Failed(c)
    THEN [ok |-> FALSE, err |-> c.err[1], tags |-> tags, marks |-> c.marks, pos |-> c.pos]
    ELSE decode_edits(Clear(c), Append(edits, c.out[1]), tags)

edits_tag_read(c, edits, tags) ==
    IF Failed(c)
    THEN [ok |-> FALSE, err |-> c.err[1], tags |-> tags, marks |-> c.marks, pos |-> c.pos]
    ELSE edits_edit_read(decode_edit(Clear(c), c.out[1]), edits, Append(tags, c.out[1]))

decode_edits(c, edits, tags) ==
    IF c.pos >= Len(c.buf)
    THEN [ok |-> TRUE, edits |-> edits, tags |-> tags, marks |-> c.marks, pos |-> c.pos]
    ELSE edits_tag_read(read_varint32(Mark(c)), edits, tags)

---------------------------------------------------------------------------
(* The block / record framer: the first half of read_record.               *)

\* BufReader<File>::read_exact of n bytes at offset p: when the file ends
\* first, the bytes that are left are consumed and the call fails
file_read_exact(f, p, n) ==
    IF p + n > Len(f)
    THEN [ok |-> FALSE, pos |-> Len(f)]
    ELSE [ok |-> TRUE, val |-> SubSeq(f, p + 1, p + n), pos |-> p + n]

Return(ret, p, whole_payload, iters, mismatches) ==
    [ret |-> ret, pos |-> p, whole_payload |-> whole_payload,
     iters |-> iters, mismatches |-> mismatches]

RetNone == [kind |-> "None"]
RetErr(e) == [kind |-> "Err", err |-> e]
RetSome(edits) == [kind |-> "Some", edits |-> edits]
Payload == [kind |-> "payload"]

\* The loop of read_record, one turn at offset p, cut at each read:
\* record_loop skips the trailer, read_header reads the header, read_payload
\* tests for the zero header and reads the payload, verify_crc compares the
\* checksums and match_type is the match on record_type.
\* iters is the history of the turns of this call: where each began (at),
\* where its header was read (header_at), the header (None: the file ended
\* first), and where the payload was read (payload_at).
RECURSIVE record_loop(_, _, _, _, _)
\* a reader whose Middle fragment replaces what was gathered
match_type_Middle_replaces(f, record_type, payload, whole_payload, iters, mismatches) ==
    CASE record_type = FULL_TYPE ->
           Return(Payload, payload.pos, payload.val, iters, mismatches)
      [] record_type = FIRST_TYPE ->
           record_loop(f, payload.pos, payload.val, iters, mismatches)
      [] record_type = MIDDLE_TYPE ->
           record_loop(f, payload.pos, payload.val, iters, mismatches)
      [] record_type = LAST_TYPE ->
           Return(Payload, payload.pos, whole_payload \o payload.val, iters, mismatches)
      [] OTHER ->
           Return(RetErr(InvalidData("Unexpected record type")),
                  payload.pos, whole_payload, iters, mismatches)

\* a reader that goes on reading behind a Full fragment
match_type_Full_goes_on(f, record_type, payload, whole_payload, iters, mismatches) ==
    CASE record_type = FULL_TYPE ->
           record_loop(f, payload.pos, payload.val, iters, mismatches)
      [] record_type = FIRST_TYPE ->
           record_loop(f, payload.pos, payload.val, iters, mismatches)
      [] record_type = MIDDLE_TYPE ->
           record_loop(f, payload.pos, whole_payload \o payload.val, iters, mismatches)
      [] record_type = LAST_TYPE ->
           Return(Payload, payload.pos, whole_payload \o payload.val, iters, mismatches)
      [] OTHER ->
           Return(RetErr(InvalidData("Unexpected record type")),
                  payload.pos, whole_payload, iters, mismatches)

\* a reader that adds a First fragment to the fragments it holds
match_type_First_extends(f, record_type, payload, whole_payload, iters, mismatches) ==
    CASE record_type = FULL_TYPE ->
           Return(Payload, payload.pos, payload.val, iters, mismatches)
      [] record_type = FIRST_TYPE ->
           record_loop(f, payload.pos, whole_payload \o payload.val, iters, mismatches)
      [] record_type = MIDDLE_TYPE ->
           record_loop(f, payload.pos, whole_payload \o payload.val, iters, mismatches)
      [] record_type = LAST_TYPE ->
           Return(Payload, payload.pos, whole_payload \o payload.val, iters, mismatches)
      [] OTHER ->
           Return(RetErr(InvalidData("Unexpected record type")),
                  payload.pos, whole_payload, iters, mismatches)

match_type(f, record_type, payload, whole_payload, iters, mismatches) ==
    CASE record_type = FULL_TYPE ->
           Return(Payload, payload.pos, payload.val, iters, mismatches)
      [] record_type = FIRST_TYPE ->
           record_loop(f, payload.pos, payload.val, iters, mismatches)
      [] record_type = MIDDLE_TYPE ->
           record_loop(f, payload.pos, whole_payload \o payload.val, iters, mismatches)
      [] record_type = LAST_TYPE ->
           Return(Payload, payload.pos, whole_payload \o payload.val, iters, mismatches)
      [] OTHER ->
           Return(RetErr(InvalidData("Unexpected record type")),
                  payload.pos, whole_payload, iters, mismatches)

\* a reader that gives up on a checksum mismatch
verify_crc_aborting(f, h, payload, whole_payload, iters, mismatches) ==
    IF ~payload.ok
    THEN Return(RetErr(UnexpectedEof), payload.pos, whole_payload, iters, mismatches)
    ELSE IF crc32c(<<h.type>> \o payload.val) # unmask_crc(h.crc)
    THEN Return(RetErr(InvalidData("CRC mismatch")), payload.pos, whole_payload,
                iters, mismatches + 1)
    ELSE match_type(f, h.type, payload, whole_payload, iters, mismatches)

\* a reader that takes a payload cut short for the end of the file
verify_crc_end_of_file(f, h, payload, whole_payload, iters, mismatches) ==
    IF ~payload.ok
    THEN Return(RetNone, payload.pos, whole_payload, iters, mismatches)
    ELSE match_type(f, h.type, payload, whole_payload, iters,
                    IF crc32c(<<h.type>> \o payload.val) # unmask_crc(h.crc)
                    THEN mismatches + 1 ELSE mismatches)

verify_crc(f, h, payload, whole_payload, iters, mismatches) ==
    IF ~payload.ok
    THEN Return(RetErr(UnexpectedEof), payload.pos, whole_payload, iters, mismatches)
    ELSE match_type(f, h.type, payload, whole_payload, iters,
                    IF crc32c(<<h.type>> \o payload.val) # unmask_crc(h.crc)
                    THEN mismatches + 1 ELSE mismatches)

read_payload(f, at, header_at, payload_at, h, whole_payload, iters, mismatches) ==
    verify_crc(f, h, file_read_exact(f, payload_at, h.size), whole_payload,
               Append(iters, [at |-> at, header_at |-> header_at, header |-> Some(h),
                              payload_at |-> payload_at]),
               mismatches)

\* "All zero?": left_in_block bytes are read behind the header
zero_header(f, at, header_at, left_in_block, h, whole_payload, iters, mismatches) ==
    read_payload(f, at, header_at,
                 IF h.crc = U32Zero /\ h.size = 0 /\ h.type = 0
                 THEN file_read_exact(f, header_at + 7, left_in_block).pos
                 ELSE header_at + 7,
                 h, whole_payload, iters, mismatches)

\* a reader that reports a run left open at the end of the file
parse_header_open_run_fails(f, at, header_at, left_in_block, header, whole_payload, iters, mismatches) ==
    IF ~header.ok
    THEN Return(IF iters = <<>> THEN RetNone ELSE RetErr(UnexpectedEof),
                header.pos, whole_payload,
                Append(iters, [at |-> at, header_at |-> header_at, header |-> None]),
                mismatches)
    ELSE zero_header(f, at, header_at, left_in_block,
                     [crc |-> SubSeq(header.val, 1, 4),
                      size |-> header.val[5] + 256 * header.val[6],
                      type |-> header.val[7]],
                     whole_payload, iters, mismatches)

parse_header(f, at, header_at, left_in_block, header, whole_payload, iters, mismatches) ==
    IF ~header.ok
    THEN Return(RetNone, header.pos, whole_payload,
                Append(iters, [at |-> at, header_at |-> header_at, header |-> None]),
                mismatches)
    ELSE zero_header(f, at, header_at, left_in_block,
                     [crc |-> SubSeq(header.val, 1, 4),
                      size |-> header.val[5] + 256 * header.val[6],
                      type |-> header.val[7]],
                     whole_payload, iters, mismatches)

read_header(f, at, header_at, left_in_block, whole_payload, iters, mismatches) ==
    parse_header(f, at, header_at, left_in_block, file_read_exact(f, header_at, 7),
                 whole_payload, iters, mismatches)

\* a reader that reads the header wherever it stands
record_loop_unskipped(f, p, whole_payload, iters, mismatches) ==
    read_header(f, p, p, BLOCK_SIZE - (p % BLOCK_SIZE),
                whole_payload, iters, mismatches)

record_loop(f, p, whole_payload, iters, mismatches) ==
    IF BLOCK_SIZE - (p % BLOCK_SIZE) < HEADER_SIZE
    THEN read_header(f, p, file_read_exact(f, p, BLOCK_SIZE - (p % BLOCK_SIZE)).pos,
                     BLOCK_SIZE, whole_payload, iters, mismatches)
    ELSE read_header(f, p, p, BLOCK_SIZE - (p % BLOCK_SIZE),
                     whole_payload, iters, mismatches)

\* the second half of read_record, on what the loop left
decoded(framed, d) ==
    [framed EXCEPT !.ret = IF d.ok THEN RetSome(d.edits) ELSE RetErr(d.err)]
    @@ [tags |-> d.tags, marks |-> d.marks, cursor |-> d.pos]

decode_payload(framed) ==
    IF framed.ret.kind # "payload"
    THEN [framed EXCEPT !.whole_payload = <<>>]
         @@ [tags |-> <<>>, marks |-> <<>>, cursor |-> 0]
    ELSE decoded(framed, decode_edits(Cursor(framed.whole_payload), <<>>, <<>>))

\* ManifestReader::read_record with the reader at offset p: what it returns
\* (ret), where it leaves the reader (pos), and the history of the call
read_record(f, p) == decode_payload(record_loop(f, p, <<>>, <<>>, 0))

---------------------------------------------------------------------------
(* main.                                                                   *)

\* a main that drops the entry of a deleted file
apply_edit_dropping(fs, e) ==
    IF e.op = "NewFile4"
    THEN [n \in DOMAIN fs \cup {e.meta.file_number} |->
             IF n = e.meta.file_number THEN e.meta ELSE fs[n]]
    ELSE IF e.op = "DeletedFile" /\ e.file_number \in DOMAIN fs
    THEN [n \in DOMAIN fs \ {e.file_number} |-> fs[n]]
    ELSE fs

\* "for e in &edit": the match on NewFile4 and DeletedFile
apply_edit(fs, e) ==
    IF e.op = "NewFile4"
    THEN [n \in DOMAIN fs \cup {e.meta.file_number} |->
             IF n = e.meta.file_number THEN e.meta ELSE fs[n]]
    ELSE IF e.op = "DeletedFile" /\ e.file_number \in DOMAIN fs
    THEN [fs EXCEPT ![e.file_number].deleted = TRUE]
    ELSE fs

RECURSIVE apply_edits(_, _, _)
apply_edits(fs, edits, i) ==
    IF i > Len(edits) THEN fs
    ELSE apply_edits(apply_edit(fs, edits[i]), edits, i + 1)

\* v.sort_by(|a, b| a.file_number.cmp(&b.file_number))
RECURSIVE sorted_files(_, _)
sorted_files(fs, numbers) ==
    IF numbers = {} THEN <<>>
    ELSE LET least == CHOOSE n \in numbers : \A m \in numbers : n <= m
         IN <<fs[least]>> \o sorted_files(fs, numbers \ {least})

NoCall == [kind |-> "none yet"]
NoTrace ==
    [start |-> 0, iters |-> <<>>, whole_payload |-> <<>>, tags |-> <<>>,
     marks |-> <<>>, cursor |-> 0]

\* main after ManifestReader::new, for a manifest holding the bytes f
Start(f, in) ==
    /\ file = f
    /\ input = in
    /\ stream_position = 0
    /\ pc = "reading"
    /\ pos = 0
    /\ files = <<>>
    /\ v = <<>>
    /\ result = NoCall
    /\ stderr = 0
    /\ trace = NoTrace

\* one turn of "while let Some(edit) = reader.read_record()?", r being what
\* read_record did
Returned(r) ==
    /\ result' = r.ret
    /\ stream_position' = r.pos
    /\ stderr' = stderr + r.mismatches
    /\ trace' = [start |-> stream_position, iters |-> r.iters,
                 whole_payload |-> r.whole_payload, tags |-> r.tags,
                 marks |-> r.marks, cursor |-> r.cursor]
    /\ pc' = CASE r.ret.kind = "Some" -> "reading"
               [] r.ret.kind = "None" -> "listing"
               [] OTHER -> "failed"
    /\ pos' = IF r.ret.kind = "Some" THEN r.pos ELSE pos
    /\ files' = IF r.ret.kind = "Some" THEN apply_edits(files, r.ret.edits, 1) ELSE files

MainLoop ==
    /\ pc = "reading"
    /\ Returned(read_record(file, stream_position))
    /\ UNCHANGED <<file, v, input>>

\* "Now print out the list of files"
ListFiles ==
    /\ pc = "listing"
    /\ v' = sorted_files(files, DOMAIN files)
    /\ pc' = "exit"
    /\ UNCHANGED <<file, stream_position, pos, files, result, stderr, trace, input>>

Next == MainLoop \/ ListFiles

---------------------------------------------------------------------------
(* The manifests read: the on-disk format, as the log writer lays it out.  *)

Xor8(a, b) == Xor8Tab[a][b]

\* the stored form of a checksum, the one unmask_crc takes back to the crc:
\* rotate_left(crc, 17) + 0xa282ead8
mask_crc(c) ==
    LET rlo == (Hi16(c) % 32768) * 2 + Lo16(c) \div 32768
        rhi == (Lo16(c) % 32768) * 2 + Hi16(c) \div 32768
        lo == (rlo + 60120) % 65536
        carry == IF rlo + 60120 >= 65536 THEN 1 ELSE 0
    IN FromHalves((rhi + 41602 + carry) % 65536, lo)

\* the checksum field of a fragment: right, wrong in one bit, or zero
StoredCrc(type, payload, sum) ==
    LET right == mask_crc(crc32c(<<type>> \o payload))
    IN CASE sum = "ok" -> right
         [] sum = "bad" -> <<Xor8(right[1], 1), right[2], right[3], right[4]>>
         [] OTHER -> U32Zero

\* checksum:u32 LE | length:u16 LE | type:u8
Header(crc, size, type) == crc \o <<size % 256, size \div 256, type>>

\* a fragment descriptor: a record type, a payload, and whether it is padding
\* (a header of seven zero bytes, which no checksum mode changes)
Frag(type, payload) == [type |-> type, payload |-> payload, padding |-> FALSE]
Padding == [type |-> ZERO_TYPE, payload |-> <<>>, padding |-> TRUE]

\* sum is the checksum mode of the file: "ok", "bad", "zero", or "fixed", which
\* gives every header, padding too, the right checksum
FragBytes(d, sum) ==
    LET mode == IF sum = "fixed" THEN "ok" ELSE IF d.padding THEN "zero" ELSE sum
    IN Header(StoredCrc(d.type, d.payload, mode), Len(d.payload), d.type) \o d.payload

Zeros(n) == [i \in 1..n |-> 0]

\* a fragment appended to the bytes so far: when fewer than 7 bytes are left
\* in the block, the writer fills them with zeros first
Emit(bytes, d, sum) ==
    LET left == BLOCK_SIZE - (Len(bytes) % BLOCK_SIZE)
    IN (IF left < HEADER_SIZE THEN bytes \o Zeros(left) ELSE bytes) \o FragBytes(d, sum)

RECURSIVE EmitAll(_, _, _, _)
EmitAll(bytes, frags, sum, i) ==
    IF i > Len(frags) THEN bytes
    ELSE EmitAll(Emit(bytes, frags[i], sum), frags, sum, i + 1)

\* a varint: 7 bits a byte, least significant first, high bit on all but the last
RECURSIVE put_varint(_)
put_varint(n) ==
    IF n < 128 THEN <<n>> ELSE <<128 + (n % 128)>> \o put_varint(n \div 128)

put_slice(data) == put_varint(Len(data)) \o data

\* a u64, little endian (values below 2^24 here)
put_u64_le(n) ==
    <<n % 256, (n \div 256) % 256, (n \div 65536) % 256, 0, 0, 0, 0, 0>>

RECURSIVE Flatten(_, _)
Flatten(seqs, i) ==
    IF i > Len(seqs) THEN <<>> ELSE seqs[i] \o Flatten(seqs, i + 1)

\* the custom fields that say what meta holds beyond the defaults, as
\* <<sub-tag, value>> pairs in sub-tag order
CustomPairs(meta) ==
    Flatten(<<
        IF meta.needs_compaction THEN << <<2, <<1>> >> >> ELSE <<>>,
        IF meta.min_log_number_to_keep # None
        THEN << <<3, put_u64_le(meta.min_log_number_to_keep[1])>> >> ELSE <<>>,
        IF meta.oldest_blob_file_number # None
        THEN << <<4, put_varint(meta.oldest_blob_file_number[1])>> >> ELSE <<>>,
        IF meta.oldest_ancester_time # 0
        THEN << <<5, put_varint(meta.oldest_ancester_time)>> >> ELSE <<>>,
        IF meta.file_creation_time # 0
        THEN << <<6, put_varint(meta.file_creation_time)>> >> ELSE <<>>,
        IF meta.file_checksum # <<>> THEN << <<7, meta.file_checksum>> >> ELSE <<>>,
        IF meta.file_checksum_func_name # <<>>
        THEN << <<8, meta.file_checksum_func_name>> >> ELSE <<>>,
        IF meta.temperature # None THEN << <<9, <<meta.temperature[1]>> >> >> ELSE <<>>,
        IF meta.min_timestamp # None THEN << <<10, meta.min_timestamp[1]>> >> ELSE <<>>,
        IF meta.max_timestamp # None THEN << <<11, meta.max_timestamp[1]>> >> ELSE <<>>,
        IF meta.unique_id # <<>> THEN << <<12, meta.unique_id>> >> ELSE <<>>,
        IF meta.epoch_number # 0
        THEN << <<13, put_varint(meta.epoch_number)>> >> ELSE <<>>,
        IF meta.compensated_range_deletion_size # 0
        THEN << <<14, put_varint(meta.compensated_range_deletion_size)>> >> ELSE <<>>,
        IF meta.tail_size # 0 THEN << <<15, put_varint(meta.tail_size)>> >> ELSE <<>>,
        IF ~meta.user_defined_timestamps_persisted THEN << <<16, <<0>> >> >> ELSE <<>>
    >>, 1)

put_pair(pair) == put_varint(pair[1]) \o put_slice(pair[2])

RECURSIVE put_pairs(_, _)
put_pairs(pairs, i) ==
    IF i > Len(pairs) THEN <<>> ELSE put_pair(pairs[i]) \o put_pairs(pairs, i + 1)

\* the arguments of NewFile4: seven fields, the custom fields (those of
\* extra, which meta does not account for, put in front), the terminator
put_NewFile4(meta, extra) ==
    put_varint(meta.level) \o put_varint(meta.file_number) \o put_varint(meta.file_size)
    \o put_slice(meta.smallest_key) \o put_slice(meta.largest_key)
    \o put_varint(meta.smallest_seqno) \o put_varint(meta.largest_seqno)
    \o put_pairs(extra \o CustomPairs(meta), 1) \o <<1>>

\* one (tag, arguments) group: an edit e and, for NewFile4, custom fields no
\* sub-tag of the reader names; or a raw tag with the bytes behind it
Group(e) == [kind |-> "edit", edit |-> e, extra |-> <<>>]
GroupWith(e, extra) == [kind |-> "edit", edit |-> e, extra |-> extra]
RawGroup(tag, args) == [kind |-> "raw", tag |-> tag, args |-> args]

put_edit(e, extra) ==
    CASE e.op = "Comparator" -> <<1>> \o put_slice(e.name)
      [] e.op = "LogNumber" -> <<2>> \o put_varint(e.num)
      [] e.op = "NextFileNumber" -> <<3>> \o put_varint(e.num)
      [] e.op = "LastSequence" -> <<4>> \o put_varint(e.num)
      [] e.op = "CompactCursor" -> <<5>> \o put_varint(e.level) \o put_slice(e.key)
      [] e.op = "DeletedFile" -> <<6>> \o put_varint(e.level) \o put_varint(e.file_number)
      [] e.op = "PrevLogNumber" -> <<9>> \o put_varint(e.num)
      [] e.op = "MinLogNumberToKeep" -> <<10>> \o put_varint(e.num)
      [] e.op = "NewFile4" -> <<103>> \o put_NewFile4(e.meta, extra)
      [] e.op = "ColumnFamily" -> put_varint(200) \o put_varint(e.num)
      [] e.op = "ColumnFamilyAdd" -> put_varint(201) \o put_slice(e.name)
      [] e.op = "ColumnFamilyDrop" -> put_varint(202)
      [] e.op = "MaxColumnFamily" -> put_varint(203) \o put_varint(e.num)

put_group(g) ==
    IF g.kind = "raw" THEN put_varint(g.tag) \o g.args ELSE put_edit(g.edit, g.extra)

RECURSIVE put_groups(_, _)
put_groups(groups, i) ==
    IF i > Len(groups) THEN <<>> ELSE put_group(groups[i]) \o put_groups(groups, i + 1)

\* the logs read are described by: lead, the distance from the end of a first
\* full-block record to the block boundary (None: no such record); frags, the
\* fragments written; sum, the checksum mode; tail, the number of zero bytes
\* behind the last fragment; cut, the number of bytes missing at the end of
\* the file; groups, the groups the payload was encoded from
Layout(lead, frags, sum, tail, cut, groups) ==
    [lead |-> lead, frags |-> frags, sum |-> sum, tail |-> tail, cut |-> cut,
     groups |-> groups]

\* a record that ends gap bytes before the first block boundary: one Full
\* fragment holding CompactCursor(0, key) with a key of zero bytes
LeadPayload(gap) ==
    <<5, 0>> \o put_slice(Zeros(BLOCK_SIZE - gap - HEADER_SIZE - 5))

LeadRecord(gap) == FragBytes(Frag(FULL_TYPE, LeadPayload(gap)), "ok")

\* the gaps of the logs read
MaxGap == 10

LeadRecords == [gap \in 0..MaxGap |-> LeadRecord(gap)]

Uncut(in) ==
    EmitAll(IF in.lead = None THEN <<>> ELSE LeadRecords[in.lead[1]],
            in.frags, in.sum, 1) \o Zeros(in.tail)

CutShort(bytes, cut) == SubSeq(bytes, 1, Len(bytes) - cut)

Build(in) == CutShort(Uncut(in), in.cut)

\* the offset of fragment i of a layout without lead
RECURSIVE FragStart(_, _, _)
FragStart(frags, sum, i) ==
    IF i = 1 THEN 0
    ELSE FragStart(frags, sum, i - 1) + Len(FragBytes(frags[i - 1], sum))

SeqsUpTo(S, n) == UNION {[1..k -> S] : k \in 0..n}

\* payload cut at the offsets in cuts: the pieces, in order
RECURSIVE Pieces(_, _, _)
Pieces(payload, from, cuts) ==
    IF cuts = {} THEN <<SubSeq(payload, from + 1, Len(payload))>>
    ELSE <<SubSeq(payload, from + 1, CHOOSE c \in cuts : \A d \in cuts : c <= d)>>
         \o Pieces(payload, CHOOSE c \in cuts : \A d \in cuts : c <= d,
                   cuts \ {CHOOSE c \in cuts : \A d \in cuts : c <= d})

\* one Full fragment, or First, Middle..., Last
Typed(pieces) ==
    IF Len(pieces) = 1 THEN <<Frag(FULL_TYPE, pieces[1])>>
    ELSE [i \in 1..Len(pieces) |->
             Frag(IF i = 1 THEN FIRST_TYPE
                  ELSE IF i = Len(pieces) THEN LAST_TYPE ELSE MIDDLE_TYPE,
                  pieces[i])]

Split(payload, cuts) == Typed(Pieces(payload, 0, cuts))

\* no fragment written from offset at on crosses a block boundary
RECURSIVE Fits(_, _, _)
Fits(at, frags, i) ==
    IF i > Len(frags) THEN TRUE
    ELSE IF BLOCK_SIZE - (at % BLOCK_SIZE) < HEADER_SIZE
    THEN Fits(at + BLOCK_SIZE - (at % BLOCK_SIZE), frags, i)
    ELSE /\ (at % BLOCK_SIZE) + HEADER_SIZE + Len(frags[i].payload) <= BLOCK_SIZE
         /\ Fits(at + HEADER_SIZE + Len(frags[i].payload), frags, i + 1)

RECURSIVE Joined(_, _)
Joined(frags, i) ==
    IF i > Len(frags) THEN <<>> ELSE frags[i].payload \o Joined(frags, i + 1)

---------------------------------------------------------------------------
(* Spec: logs of a few fragments of every record type, with right, wrong   *)
(* and zero checksums, complete or cut short.                              *)

MaxFrags == 3
MaxCut == 3

FragChoices ==
    {Frag(FULL_TYPE, <<2, 5>>), Frag(FIRST_TYPE, <<2, 5>>),
     Frag(MIDDLE_TYPE, <<4, 20>>), Frag(LAST_TYPE, <<3, 7>>),
     Frag(FULL_TYPE, <<>>), Frag(5, <<>>), Padding}

FramingInputs ==
    {in \in {Layout(None, fs, sum, 0, cut, <<>>) :
                fs \in SeqsUpTo(FragChoices, MaxFrags),
                sum \in {"ok", "bad", "zero"}, cut \in 0..MaxCut} :
        in.cut <= Len(Uncut(in))}

Init == \E in \in FramingInputs : Start(Build(in), in)

Spec == Init /\ [][Next]_vars

---------------------------------------------------------------------------
(* SpecBlock: a record that fills the first block up to a gap, and behind  *)
(* it either one payload written whole or in pieces, or zero bytes up to   *)
(* the block boundary at most.                                             *)

BlockPayload == <<2, 5>>

BlockInputs ==
    {in \in {Layout(Some(gap), Split(BlockPayload, cuts), "ok", 0, 0, <<>>) :
                gap \in 0..MaxGap, cuts \in SUBSET (0..Len(BlockPayload))} :
        Fits(BLOCK_SIZE - in.lead[1], in.frags, 1)}
    \cup {in \in {Layout(Some(gap), <<>>, "ok", tail, 0, <<>>) :
                gap \in 0..MaxGap, tail \in 0..MaxGap} :
            in.tail <= in.lead[1] /\ in.lead[1] < HEADER_SIZE}

InitBlock == \E in \in BlockInputs : Start(Build(in), in)

SpecBlock == InitBlock /\ [][Next]_vars

---------------------------------------------------------------------------
(* SpecEdit: one Full record whose payload is a few groups.                *)

MaxOps == 3

SomeFile ==
    [FileMetaData_default EXCEPT
        !.level = 1, !.file_number = 7, !.file_size = 300,
        !.smallest_key = <<97>>, !.largest_key = <<122, 122>>,
        !.smallest_seqno = 5, !.largest_seqno = 130]

RichFile ==
    [SomeFile EXCEPT
        !.file_number = 8, !.needs_compaction = TRUE,
        !.min_log_number_to_keep = Some(258), !.oldest_blob_file_number = Some(3),
        !.file_checksum = <<99, 114, 99>>, !.temperature = Some(4),
        !.epoch_number = 200, !.user_defined_timestamps_persisted = FALSE,
        !.max_timestamp = Some(<<9>>)]

NewFile4(meta) == [op |-> "NewFile4", meta |-> meta]

GroupChoices ==
    {Group([op |-> "LogNumber", num |-> 5]),
     Group([op |-> "LastSequence", num |-> 20]),
     Group([op |-> "DeletedFile", level |-> 1, file_number |-> 7]),
     Group([op |-> "ColumnFamilyDrop"]),
     Group(NewFile4(SomeFile)),
     Group(NewFile4(RichFile)),
     GroupWith(NewFile4(RichFile), << <<32, <<1, 2>> >> >>),
     GroupWith(NewFile4(SomeFile), << <<258, <<>> >>, <<0, <<7>> >> >>),
     GroupWith(NewFile4(RichFile), << <<65, <<1>> >> >>),
     RawGroup(8, <<>>),
     RawGroup(257, <<0>>),
     RawGroup(458, <<>>)}

EditInputs ==
    {Layout(None, <<Frag(FULL_TYPE, put_groups(gs, 1))>>, "ok", 0, 0, gs) :
        gs \in SeqsUpTo(GroupChoices, MaxOps)}

InitEdit == \E in \in EditInputs : Start(Build(in), in)

SpecEdit == InitEdit /\ [][Next]_vars

---------------------------------------------------------------------------
(* SpecPayload: one Full record whose payload is a group, or LogNumber(5)  *)
(* and a group, with some bytes missing at the end of the last group. The  *)
(* groups are NewFile4 with well-formed and malformed custom fields, and   *)
(* edits with each kind of argument.                                       *)

FieldChoices ==
    {<<2, <<0>> >>, <<2, <<1>> >>, <<2, <<2>> >>, <<2, <<>> >>, <<2, <<1, 1>> >>,
     <<16, <<0>> >>, <<16, <<1>> >>, <<16, <<2>> >>, <<16, <<>> >>, <<16, <<0, 0>> >>,
     <<9, <<>> >>, <<3, <<1, 2>> >>, <<7, <<255>> >>}

PayloadChoices ==
    {Group(NewFile4(SomeFile)), Group(NewFile4(RichFile)),
     Group([op |-> "CompactCursor", level |-> 2, key |-> <<97, 98>>]),
     Group([op |-> "Comparator", name |-> <<97, 98>>]),
     Group([op |-> "DeletedFile", level |-> 1, file_number |-> 300])}
    \cup {GroupWith(NewFile4(SomeFile), <<pair>>) : pair \in FieldChoices}

\* a payload layout: groups, and short, the number of bytes missing at the end
PayloadLayout(groups, short) ==
    Layout(None, <<Frag(FULL_TYPE, CutShort(put_groups(groups, 1), short))>>,
           "ok", 0, 0, groups) @@ [short |-> short]

PayloadInputs ==
    UNION {{PayloadLayout(before \o <<g>>, short) :
                short \in 0..Len(put_group(g))} :
            before \in {<<>>, <<Group([op |-> "LogNumber", num |-> 5])>>},
            g \in PayloadChoices}

InitPayload == \E in \in PayloadInputs : Start(Build(in), in)

SpecPayload == InitPayload /\ [][Next]_vars

---------------------------------------------------------------------------
(* SpecMask: unmask_crc on the stored form of a checksum.  The checksum is *)
(* any four of a few bytes; it is stored as the log writer stores it       *)
(* (mask_crc), or as the format description words it (mask_as_described).  *)

\* rotate_left(crc + 0xa282ead8, 17)
mask_as_described(c) ==
    LET slo == (Lo16(c) + 60120) % 65536
        shi == (Hi16(c) + 41602 + (IF Lo16(c) + 60120 >= 65536 THEN 1 ELSE 0)) % 65536
    IN FromHalves((slo % 32768) * 2 + shi \div 32768,
                  (shi % 32768) * 2 + slo \div 32768)

MaskBytes == {0, 1, 127, 128, 255}

MaskInputs ==
    {[crc |-> <<a, b, c, d>>, masking |-> how] :
        a \in MaskBytes, b \in MaskBytes, c \in MaskBytes, d \in MaskBytes,
        how \in {"rotate, add", "add, rotate"}}

Stored(in) ==
    IF in.masking = "rotate, add" THEN mask_crc(in.crc) ELSE mask_as_described(in.crc)

InitMask ==
    \E in \in MaskInputs :
        /\ input = in
        /\ file = Stored(in)
        /\ stream_position = 0
        /\ pc = "unmasking"
        /\ pos = 0
        /\ files = <<>>
        /\ v = <<>>
        /\ result = NoCall
        /\ stderr = 0
        /\ trace = NoTrace

\* expected_crc = unmask_crc(expected_crc), on the four bytes of the file
Unmask ==
    /\ pc = "unmasking"
    /\ result' = [kind |-> "crc", expected_crc |-> unmask_crc(file)]
    /\ pc' = "unmasked"
    /\ UNCHANGED <<file, stream_position, pos, files, v, stderr, trace, input>>

NextMask == Unmask

SpecMask == InitMask /\ [][NextMask]_vars

---------------------------------------------------------------------------
(* SpecFold: a few NewFile4 and DeletedFile edits, and a LogNumber, all in *)
(* one Full record or each in a record of its own.                         *)

GrownFile == [SomeFile EXCEPT !.file_size = 301, !.temperature = Some(2)]

FoldChoices ==
    {Group(NewFile4(SomeFile)), Group(NewFile4(GrownFile)), Group(NewFile4(RichFile)),
     Group([op |-> "DeletedFile", level |-> 1, file_number |-> 7]),
     Group([op |-> "DeletedFile", level |-> 1, file_number |-> 8]),
     Group([op |-> "DeletedFile", level |-> 0, file_number |-> 9]),
     Group([op |-> "LogNumber", num |-> 5])}

FoldInputs ==
    {Layout(None, <<Frag(FULL_TYPE, put_groups(gs, 1))>>, "ok", 0, 0, gs) :
        gs \in SeqsUpTo(FoldChoices, MaxOps)}
    \cup {Layout(None, [k \in DOMAIN gs |-> Frag(FULL_TYPE, put_group(gs[k]))],
                 "ok", 0, 0, gs) :
            gs \in SeqsUpTo(FoldChoices, MaxOps)}

InitFold == \E in \in FoldInputs : Start(Build(in), in)

SpecFold == InitFold /\ [][Next]_vars

---------------------------------------------------------------------------
(* Properties of read_record, stated on the state after a call: result is  *)
(* what the call returned, trace what it did, stream_position where it     *)
(* left the reader.                                                        *)

Called == result # NoCall

LeftInBlock(p) == BLOCK_SIZE - (p % BLOCK_SIZE)

\* the call read a header of seven zero bytes in turn i
ZeroHeader(i) ==
    /\ trace.iters[i].header # None
    /\ trace.iters[i].header[1] = [crc |-> U32Zero, size |-> 0, type |-> ZERO_TYPE]

IsRun(frags) ==
    /\ Len(frags) >= 2
    /\ frags[1].type = FIRST_TYPE
    /\ frags[Len(frags)].type = LAST_TYPE
    /\ \A i \in 2..(Len(frags) - 1) : frags[i].type = MIDDLE_TYPE

\* the call began at the First fragment of a run written behind the lead
ReadTheRun ==
    /\ Called
    /\ input.lead # None
    /\ IsRun(input.frags)
    /\ trace.start = BLOCK_SIZE - input.lead[1]

FullRecord(payload) == FragBytes(Frag(FULL_TYPE, payload), "ok")

\* C1: a payload written as First, Middle..., Last fragments, in one block or
\* in two, is returned by read_record as the same payload written as one
\* Full fragment is: the same edits, or the same error.
C1_SplitDecodesAsFull ==
    ReadTheRun =>
        result = read_record(FullRecord(Joined(input.frags, 1)), 0).ret

\* a run of First, Middle, Last that begins in the first block and ends in
\* the second was read and decoded
C1_SplitAcrossBlocks ==
    /\ ReadTheRun
    /\ Len(input.frags) >= 3
    /\ result = RetSome(<<[op |-> "LogNumber", num |-> 5]>>)
    /\ trace.iters[1].header_at < BLOCK_SIZE
    /\ trace.iters[Len(trace.iters)].header_at >= BLOCK_SIZE

NextBlock(p) == p + LeftInBlock(p)

\* C2: a header of seven zero bytes is padding: the reader goes to the next
\* block boundary (the end of the file at most) and reads the next header
\* there; the call does not end at the zero header.
C2_ZeroHeaderIsPadding ==
    \A i \in DOMAIN trace.iters :
        ZeroHeader(i) =>
            /\ i < Len(trace.iters)
            /\ trace.iters[i + 1].at
                   = Min(Len(file), NextBlock(trace.iters[i].header_at))

\* turn i read a Middle fragment and no turn of the call before it a First
OrphanMiddle(i) ==
    /\ trace.iters[i].header # None
    /\ trace.iters[i].header[1].type = MIDDLE_TYPE
    /\ \A j \in 1..(i - 1) : trace.iters[j].header[1].type # FIRST_TYPE

\* C3: a Middle fragment that no First fragment precedes ends the call with
\* an error; no payload is built from it.
C3_OrphanMiddleFails ==
    \A i \in DOMAIN trace.iters :
        OrphanMiddle(i) => i = Len(trace.iters) /\ result.kind = "Err"

RecognizedTags == {1, 2, 3, 4, 5, 6, 7, 9, 10, 100, 102, 103, 200, 201, 202, 203}

\* C4: a top-level tag outside the recognized values, 256 and above
\* included, ends the decoding with the unknown-tag error: it is the last
\* tag read and the call returns that error.
C4_UnknownTagIsFatal ==
    \A i \in DOMAIN trace.tags :
        trace.tags[i] \notin RecognizedTags =>
            /\ i = Len(trace.tags)
            /\ result = RetErr(InvalidData("Unknown tag"))

Unrecognized(pair) == pair[1] \notin 1..16

MustUnderstand(pair) == (pair[1] \div 64) % 2 = 1

\* a group that is an edit whose custom fields the reader names or may skip
Clean(g) ==
    /\ g.kind = "edit"
    /\ \A j \in DOMAIN g.extra :
           Unrecognized(g.extra[j]) /\ ~MustUnderstand(g.extra[j])

Drop(seq, j) == SubSeq(seq, 1, j - 1) \o SubSeq(seq, j + 1, Len(seq))

WithoutPair(groups, k, j) == [groups EXCEPT ![k].extra = Drop(@, j)]

FirstCall == Called /\ trace.start = 0

\* C5: in a NewFile4, a custom field with a sub-tag outside 1..16: with bit
\* 0x40 set, and everything before it decodable, the call fails with "new-file4
\* custom field not supported"; with bit 0x40 clear the call returns what it
\* returns for the payload without that pair, and the meta decoded is the
\* meta encoded.
C5_UnknownCustomField ==
    FirstCall =>
        \A k \in DOMAIN input.groups :
            input.groups[k].kind = "edit" =>
                \A j \in DOMAIN input.groups[k].extra :
                    Unrecognized(input.groups[k].extra[j]) =>
                        IF MustUnderstand(input.groups[k].extra[j])
                        THEN (/\ \A i \in 1..(k - 1) : Clean(input.groups[i])
                              /\ \A i \in 1..(j - 1) :
                                     ~MustUnderstand(input.groups[k].extra[i]))
                             => result = RetErr(InvalidData(
                                            "new-file4 custom field not supported"))
                        ELSE /\ result = read_record(
                                    FullRecord(put_groups(
                                        WithoutPair(input.groups, k, j), 1)), 0).ret
                             /\ result.kind = "Some"
                                    => result.edits[k] = input.groups[k].edit

\* a NewFile4 with sub-tag 0x20 was decoded, the next one has sub-tag 0x41
C5_SkippedThenUnsupported ==
    /\ FirstCall
    /\ input.groups = <<GroupWith(NewFile4(RichFile), << <<32, <<1, 2>> >> >>),
                        GroupWith(NewFile4(RichFile), << <<65, <<1>> >> >>)>>
    /\ trace.tags = <<103, 103>>
    /\ result = RetErr(InvalidData("new-file4 custom field not supported"))

\* the call, on the file with every checksum field set right
WithRightChecksums == read_record(Build([input EXCEPT !.sum = "fixed"]), trace.start)

\* C6 as stated: the call returns, and leaves the reader, as it does on the
\* file in which every stored checksum is the right one.
C6_SameAsWithRightChecksums ==
    Called =>
        /\ result = WithRightChecksums.ret
        /\ stream_position = WithRightChecksums.pos

\* C6: a checksum mismatch does not change what the call returns; it leaves
\* the reader at the same offset too, unless the call read a header of seven
\* zero bytes, behind which the reader consumes the rest of a block.
C6_ChecksumNeverDecides ==
    Called =>
        /\ result = WithRightChecksums.ret
        /\ (\A i \in DOMAIN trace.iters : ~ZeroHeader(i))
               => stream_position = WithRightChecksums.pos

\* a record of two fragments or more, each with a wrong checksum, was decoded
C6_DecodedDespiteMismatch ==
    /\ Called
    /\ input.sum = "bad"
    /\ Len(trace.iters) >= 2
    /\ stderr >= 2
    /\ result.kind = "Some"

\* the call began where the records of the file end: nothing follows, or
\* padding only
AtEndOfRecords ==
    /\ input.cut = 0
    /\ \E i \in 1..(Len(input.frags) + 1) :
           /\ FragStart(input.frags, input.sum, i) = trace.start
           /\ \A j \in i..Len(input.frags) : input.frags[j].padding

\* C7: a call made where the records end (in an empty file, behind the last
\* record, with nothing or only padding left) returns None, not an error.
C7_EndOfFileIsNone ==
    (Called /\ AtEndOfRecords) => result.kind = "None"

\* turn i read a header with a length beyond the end of the file
TruncatedPayload(i) ==
    /\ trace.iters[i].header # None
    /\ trace.iters[i].header[1].size > 0
    /\ trace.iters[i].payload_at + trace.iters[i].header[1].size > Len(file)

\* C8: a whole header with a non-zero length and fewer payload bytes than
\* that left in the file ends the call with the error of read_exact,
\* UnexpectedEof: not None, not a payload.
C8_TruncatedPayloadFails ==
    \A i \in DOMAIN trace.iters :
        TruncatedPayload(i) =>
            i = Len(trace.iters) /\ result = RetErr(UnexpectedEof)

\* a First fragment was read whole, the fragment behind it is cut short
C8_CutInSecondFragment ==
    /\ Called
    /\ Len(trace.iters) >= 2
    /\ TruncatedPayload(Len(trace.iters))
    /\ input.cut > 0

\* C9: a turn that begins with fewer than 7 bytes left in the block consumes
\* those bytes (as many as the file has) and reads the header at the block
\* boundary; any other turn reads it where it begins; no header is read
\* where fewer than 7 bytes are left in the block; a call that finds the end
\* of the file behind the trailer returns None.
C9_TrailerSkipped ==
    \A i \in DOMAIN trace.iters :
        /\ LeftInBlock(trace.iters[i].at) < HEADER_SIZE
               => trace.iters[i].header_at
                      = Min(Len(file), NextBlock(trace.iters[i].at))
        /\ LeftInBlock(trace.iters[i].at) >= HEADER_SIZE
               => trace.iters[i].header_at = trace.iters[i].at
        /\ trace.iters[i].header # None
               => LeftInBlock(trace.iters[i].header_at) >= HEADER_SIZE
        /\ trace.iters[i].header = None => result = RetNone

\* a turn began inside a trailer, read the header at the block boundary, and
\* the call returned the record found there
C9_RecordBehindTrailer ==
    /\ Called
    /\ result = RetSome(<<[op |-> "LogNumber", num |-> 5]>>)
    /\ \E i \in DOMAIN trace.iters :
           /\ LeftInBlock(trace.iters[i].at) < HEADER_SIZE
           /\ trace.iters[i].header_at = BLOCK_SIZE
           /\ trace.iters[i].header # None

WellFormed(groups) == \A k \in DOMAIN groups : Clean(groups[k])

Edits(groups) == [k \in DOMAIN groups |-> groups[k].edit]

\* C10: a payload that encodes n edits, n >= 0, decodes to exactly those n
\* edits in the order encoded.
C10_DecodesInOrder ==
    (FirstCall /\ WellFormed(input.groups)) => result = RetSome(Edits(input.groups))

\* LogNumber(5), a NewFile4 with custom fields, LastSequence(20) were decoded
C10_ThreeEdits ==
    /\ FirstCall
    /\ input.groups = <<Group([op |-> "LogNumber", num |-> 5]),
                        Group(NewFile4(RichFile)),
                        Group([op |-> "LastSequence", num |-> 20])>>
    /\ result = RetSome(<<[op |-> "LogNumber", num |-> 5], NewFile4(RichFile),
                          [op |-> "LastSequence", num |-> 20]>>)

\* the payload the call decoded
ThePayload == input.frags[1].payload

\* the bytes of the groups up to group k
UpTo(groups, k) == put_groups(SubSeq(groups, 1, k), 1)

\* the last group is a NewFile4 and the payload ends inside it, so that its
\* Terminate sub-tag, its last byte, is missing
CutInNewFile4 ==
    /\ input.groups[Len(input.groups)].edit.op = "NewFile4"
    /\ input.short >= 1
    /\ input.short < Len(put_group(input.groups[Len(input.groups)]))

\* custom fields the reader names and cannot decode
MalformedFields ==
    {<<2, <<>> >>, <<2, <<1, 1>> >>, <<16, <<>> >>, <<16, <<0, 0>> >>,
     <<9, <<>> >>, <<3, <<1, 2>> >>, <<7, <<255>> >>}

\* the last group, of which the tag at least is there, has such a field
MalformedNewFile4 ==
    /\ input.short < Len(put_group(input.groups[Len(input.groups)]))
    /\ \E j \in DOMAIN input.groups[Len(input.groups)].extra :
           input.groups[Len(input.groups)].extra[j] \in MalformedFields

\* C11: a NewFile4 is returned only when the payload holds its group up to
\* and including the Terminate sub-tag; a payload that ends inside the
\* group, or a custom field that cannot be decoded, makes the call return an
\* error, and main's files get no entry from it.
C11_NewFile4OnlyAfterTerminate ==
    FirstCall =>
        /\ CutInNewFile4 => result.kind = "Err" /\ files = <<>>
        /\ MalformedNewFile4 => result.kind = "Err" /\ files = <<>>
        /\ result.kind = "Some" =>
               \A k \in DOMAIN result.edits :
                   result.edits[k].op = "NewFile4" =>
                       /\ k <= Len(input.groups)
                       /\ Len(UpTo(input.groups, k)) <= Len(ThePayload)
                       /\ ThePayload[Len(UpTo(input.groups, k))] = 1

\* a NewFile4 with custom fields whose payload ends right before Terminate
C11_TerminateMissing ==
    /\ FirstCall
    /\ input.groups = <<Group([op |-> "LogNumber", num |-> 5]),
                        Group(NewFile4(RichFile))>>
    /\ input.short = 1
    /\ trace.tags = <<2, 103>>
    /\ result = RetErr(UnexpectedEof)
    /\ files = <<>>

\* C12 as stated: unmask_crc takes rotate_left(crc + 0xa282ead8, 17) back to
\* crc.
C12_UnmaskInvertsAddRotate ==
    (pc = "unmasked" /\ input.masking = "add, rotate")
        => result.expected_crc = input.crc

\* C12: unmask_crc, rotate_right(s - 0xa282ead8, 17), takes
\* rotate_left(crc, 17) + 0xa282ead8 back to crc: it is the inverse of the
\* rotation followed by the addition, not of the addition followed by the
\* rotation.
C12_UnmaskInvertsRotateAdd ==
    (pc = "unmasked" /\ input.masking = "rotate, add")
        => result.expected_crc = input.crc

\* a checksum whose stored form carries into the high half was unmasked
C12_UnmaskedWithCarry ==
    /\ pc = "unmasked"
    /\ input.masking = "rotate, add"
    /\ input.crc = <<255, 255, 128, 127>>
    /\ file # input.crc
    /\ result.expected_crc = <<255, 255, 128, 127>>

\* the payload ends inside the last group: its tag is there, its arguments
\* are not all there
CutInArguments ==
    /\ input.short >= 1
    /\ input.short < Len(put_group(input.groups[Len(input.groups)]))

\* C13: the decoding loop begins each turn at least one byte behind the
\* turn before and before the end of the payload; the cursor never stands
\* behind the end; edits are returned only with the cursor at the end, and a
\* payload that ends inside the arguments of a group gives an error.
C13_DecodingLoopEnds ==
    FirstCall =>
        /\ Len(trace.marks) = Len(trace.tags) \/ Len(trace.marks) = Len(trace.tags) + 1
        /\ \A i \in DOMAIN trace.marks :
               /\ trace.marks[i] < Len(ThePayload)
               /\ i > 1 => trace.marks[i] > trace.marks[i - 1]
        /\ trace.cursor <= Len(ThePayload)
        /\ result.kind = "Some" => trace.cursor = Len(ThePayload)
        /\ CutInArguments => result.kind = "Err"

\* LogNumber(5) was decoded; of the key of CompactCursor the last byte is
\* missing
C13_KeyCutShort ==
    /\ FirstCall
    /\ input.groups = <<Group([op |-> "LogNumber", num |-> 5]),
                        Group([op |-> "CompactCursor", level |-> 2,
                               key |-> <<97, 98>>])>>
    /\ input.short = 1
    /\ trace.marks = <<0, 2>>
    /\ result = RetErr(UnexpectedEof)

LastGroup == input.groups[Len(input.groups)]

\* the meta of the NewFile4 decoded last holds the boolean b under sub-tag
BooleanIs(subtag, b) ==
    /\ result.kind = "Some"
    /\ Len(result.edits) = Len(input.groups)
    /\ IF subtag = 2
       THEN result.edits[Len(result.edits)].meta.needs_compaction = b
       ELSE result.edits[Len(result.edits)].meta.user_defined_timestamps_persisted = b

\* C14: a custom field with sub-tag 2 (NeedCompaction) or 16
\* (UserDefinedTimestampsPersisted) is decoded when its value is one byte, 0
\* or 1, the attribute being true iff the byte is 1; with any other value
\* the call returns an error.
C14_BooleanFieldIsZeroOrOne ==
    (FirstCall /\ input.short = 0) =>
        \A j \in DOMAIN LastGroup.extra :
            LastGroup.extra[j][1] \in {2, 16} =>
                IF LastGroup.extra[j][2] \in {<<0>>, <<1>>}
                THEN BooleanIs(LastGroup.extra[j][1], LastGroup.extra[j][2] = <<1>>)
                ELSE result.kind = "Err"

\* the number of groups in the records read so far
GroupsRead ==
    IF Len(input.frags) = Len(input.groups)
    THEN CHOOSE k \in 0..Len(input.groups) :
             FragStart(input.frags, input.sum, k + 1) = stream_position
    ELSE IF stream_position > 0 THEN Len(input.groups) ELSE 0

EditsRead == [k \in 1..GroupsRead |-> input.groups[k].edit]

Added(edits, n) ==
    {k \in DOMAIN edits : edits[k].op = "NewFile4" /\ edits[k].meta.file_number = n}

LastAdded(edits, n) == CHOOSE k \in Added(edits, n) : \A j \in Added(edits, n) : j <= k

DeletedBehind(edits, n, k) ==
    \E j \in (k + 1)..Len(edits) :
        edits[j].op = "DeletedFile" /\ edits[j].file_number = n

\* one entry for each file_number added: the meta added last, deleted iff a
\* DeletedFile of that number came behind it
View(edits) ==
    [n \in {m \in {7, 8, 9} : Added(edits, m) # {}} |->
        [edits[LastAdded(edits, n)].meta
            EXCEPT !.deleted = DeletedBehind(edits, n, LastAdded(edits, n))]]

\* C15: after main has folded the edits of the records read so far, files
\* holds one entry for each file_number of a NewFile4, equal to the NewFile4
\* of that number read last, and marked deleted iff a DeletedFile of that
\* number was read behind it; a DeletedFile of a number without entry
\* changes nothing.
C15_FilesIsTheView == files = View(EditsRead)

\* a file was added, deleted and added again, each in a record of its own
C15_AddedAgain ==
    /\ pc = "exit"
    /\ Len(input.frags) = 3
    /\ input.groups = <<Group(NewFile4(SomeFile)),
                        Group([op |-> "DeletedFile", level |-> 1, file_number |-> 7]),
                        Group(NewFile4(GrownFile))>>
    /\ DOMAIN files = {7}
    /\ files[7] = GrownFile
    /\ v = <<GrownFile>>

\* a file was added, another added and deleted, a third deleted unknown
C15_DeletedOne ==
    /\ pc = "listing"
    /\ input.groups = <<Group(NewFile4(SomeFile)), Group(NewFile4(RichFile)),
                        Group([op |-> "DeletedFile", level |-> 1, file_number |-> 8])>>
    /\ files[8].deleted /\ ~files[7].deleted

\* turn i of the call t read a fragment that ends a run
Completes(t, i) ==
    /\ t.iters[i].header # None
    /\ t.iters[i].header[1].type \in {FULL_TYPE, LAST_TYPE}

\* where the payload read in turn i of the call t ends
IterEnd(t, i) == t.iters[i].payload_at + t.iters[i].header[1].size

\* the payloads the call t read in the turns from i on, as they lie in file
RECURSIVE ReadFrom(_, _)
ReadFrom(t, i) ==
    IF i > Len(t.iters) THEN <<>>
    ELSE SubSeq(file, t.iters[i].payload_at + 1, IterEnd(t, i)) \o ReadFrom(t, i + 1)

\* the call t, begun with the reader at p, went forward through the file and
\* left the reader at q returning r
Forward(p, t, r, q) ==
    /\ t.start = p
    /\ t.iters # <<>>
    /\ t.iters[1].at = p
    /\ \A i \in DOMAIN t.iters :
          /\ t.iters[i].header_at >= t.iters[i].at
          /\ t.iters[i].header # None =>
                t.iters[i].payload_at >= t.iters[i].header_at + HEADER_SIZE
          /\ i < Len(t.iters) =>
                /\ t.iters[i].header # None
                /\ ~Completes(t, i)
                /\ t.iters[i + 1].at = IterEnd(t, i)
    /\ q >= t.iters[Len(t.iters)].header_at
    /\ r.kind = "Some" =>
          /\ Completes(t, Len(t.iters))
          /\ q = IterEnd(t, Len(t.iters))
          /\ \E k \in DOMAIN t.iters : t.whole_payload = ReadFrom(t, k)

\* C16: every call of read_record begins where the call before it left the
\* reader and reads its fragments at increasing offsets, each beginning
\* where the one before it ended; a call that returns Some has read exactly
\* one fragment that ends a run, a Full or a Last, as its last one, leaves
\* the reader behind it, and its payload is made of payloads of fragments of
\* this call, each taken once.
C16_FragmentsReadInOrder ==
    [][pc = "reading" => Forward(stream_position, trace', result', stream_position')]_vars

\* the second call read a First and a Last fragment and returned their edits
C16_SecondRun ==
    /\ result.kind = "Some"
    /\ trace.start > 0
    /\ Len(trace.iters) = 2
    /\ trace.iters[1].header[1].type = FIRST_TYPE
    /\ trace.iters[2].header[1].type = LAST_TYPE
    /\ trace.whole_payload = <<2, 5, 3, 7>>
    /\ stream_position = Len(file)

\* the file ended within the seven bytes of the header of the last turn
EndOfFileInHeader ==
    /\ Called
    /\ trace.iters[Len(trace.iters)].header_at + HEADER_SIZE > Len(file)

\* C17: a call that finds fewer than seven bytes left where it reads a
\* header returns None, whatever fragments it has read before in that call:
\* no error, no edits, and main goes on to list the files.
C17_EndOfFileInHeaderIsNone ==
    EndOfFileInHeader =>
        /\ result = RetNone
        /\ pc \in {"listing", "exit"}
        /\ stream_position = Len(file)

\* the file ended four bytes into the header behind a First fragment
C17_RunLeftOpen ==
    /\ EndOfFileInHeader
    /\ trace.start = 0
    /\ Len(trace.iters) = 2
    /\ trace.iters[1].header[1].type = FIRST_TYPE
    /\ trace.iters[1].header[1].size = 2
    /\ Len(file) - trace.iters[2].header_at = 4
    /\ result = RetNone
    /\ files = <<>>
    /\ pc = "listing"

\* the turns of the call t that read a fragment beginning a payload
Begins(t) ==
    {i \in DOMAIN t.iters :
        t.iters[i].header # None /\ t.iters[i].header[1].type \in {FIRST_TYPE, FULL_TYPE}}

\* the turn from which the payload of the call t is taken: its last First or
\* Full fragment, the first turn if it read none
Restart(t) ==
    IF Begins(t) = {} THEN 1
    ELSE CHOOSE i \in Begins(t) : \A j \in Begins(t) : j <= i

\* the last turn of the call read a whole Full or Last fragment
RunEnded ==
    /\ Called
    /\ Completes(trace, Len(trace.iters))
    /\ IterEnd(trace, Len(trace.iters)) <= Len(file)

\* C18: fragments out of sequence are no error of their own. The payload of a
\* call that ends at a Full or Last fragment is what lies from its last First
\* or Full fragment on, the fragments read before that in the call being left
\* out, and a Last fragment read first in a call is the payload by itself;
\* the call returns what that payload gives when written as one Full record.
C18_OutOfSequenceAccepted ==
    RunEnded =>
        /\ trace.whole_payload = ReadFrom(trace, Restart(trace))
        /\ result = read_record(FullRecord(ReadFrom(trace, Restart(trace))), 0).ret

\* a Last fragment alone was returned by the first call, and the second call
\* read a First and then a Full fragment and returned the Full one's edit
C18_LoneLastThenFirstFull ==
    /\ input.frags = <<Frag(LAST_TYPE, <<3, 7>>), Frag(FIRST_TYPE, <<2, 5>>),
                       Frag(FULL_TYPE, <<2, 5>>)>>
    /\ input.sum = "ok"
    /\ trace.start = HEADER_SIZE + 2
    /\ Len(trace.iters) = 2
    /\ Restart(trace) = 2
    /\ stream_position = Len(file)
    /\ result = RetSome(<<[op |-> "LogNumber", num |-> 5]>>)

====
